---- MODULE Spec2Model ----
(***************************************************************************)
(* A model of app.py: the /convert handler with its three renderers        *)
(* (create_pdf_from_images, create_ppt_from_images,                        *)
(* create_zip_from_images), the cleanup ledger (cleanup_queue under        *)
(* cleanup_lock, schedule_cleanup) and the cleanup thread                  *)
(* (cleanup_resources).                                                    *)
(*                                                                         *)
(* Library calls are modelled by what they do to the values app.py reads:  *)
(*  - download_image(url) returns an image for a reachable URL, raises     *)
(*    for an unreachable one, and may do either for a flaky one;           *)
(*  - image.save(..., 'JPEG') writes modes without alpha or palette and    *)
(*    raises for the others (the reason create_zip_from_images composites  *)
(*    'RGBA'/'LA' images onto white before saving);                        *)
(*  - canvas.showPage() closes the current page, canvas.save() closes a    *)
(*    page only if something was painted since the last showPage();        *)
(*  - prs.slide_layouts._sldLayouts reaches into a private attribute of    *)
(*    python-pptx; what .clear() does there depends on the installed       *)
(*    build, so the three possible outcomes are all explored (pptxBuild).  *)
(***************************************************************************)
EXTENDS Integers, Sequences, FiniteSets, Bags, TLC

(***************************************************************************)
(* Bounds of the model.                                                    *)
(***************************************************************************)
MaxImages == 3
MaxTime == 420

(***************************************************************************)
(* Program constants.                                                      *)
(***************************************************************************)
StaleAfter == 300
SweepSleep == 60
ZFillWidth == 3

TickLen == SweepSleep

Workers == {"w1", "w2"}
Sweeper == "sweeper"
Free == "free"

(***************************************************************************)
(* The remote world download_image talks to: five URLs.  One never         *)
(* resolves, one resolves on some calls and not on others, three always    *)
(* resolve, to images of different modes and sizes.                        *)
(***************************************************************************)
Urls == {"a.jpg", "b.png", "c.gif", "f.jpg", "x.404"}

\* The results one call of download_image(u) can have: TRUE for an image
\* returned, FALSE for an exception raised (lines 93-95).
FetchOutcomes(u) ==
  CASE u = "x.404" -> {FALSE}
    [] u = "f.jpg" -> {TRUE, FALSE}
    [] OTHER -> {TRUE}

ImageMode(u) ==
  CASE u = "a.jpg" -> "RGB"
    [] u = "b.png" -> "RGBA"
    [] u = "c.gif" -> "P"
    [] u = "f.jpg" -> "RGB"
    [] OTHER -> "none"

ImageSize(u) ==
  CASE u = "a.jpg" -> <<4, 3>>
    [] u = "b.png" -> <<2, 2>>
    [] u = "c.gif" -> <<1, 1>>
    [] u = "f.jpg" -> <<5, 5>>
    [] OTHER -> <<0, 0>>

\* image.save(path, 'JPEG'): the JPEG writer has no alpha and no palette mode.
JpegWritable(mode) == mode \in {"RGB", "L", "CMYK"}

\* create_zip_from_images, lines 216-220: alpha images are pasted on white RGB.
ZipNormalize(mode) == IF mode \in {"RGBA", "LA"} THEN "RGB" ELSE mode

(***************************************************************************)
(* str(i+1).zfill(3) and the entry name of line 213.                       *)
(***************************************************************************)
Digits == <<"0", "1", "2", "3", "4", "5", "6", "7", "8", "9">>

RECURSIVE Str(_)
Str(n) == IF n < 10 THEN Digits[n + 1] ELSE Str(n \div 10) \o Digits[(n % 10) + 1]

RECURSIVE ZFill(_, _)
ZFill(s, w) == IF Len(s) >= w THEN s ELSE ZFill("0" \o s, w)

EntryName(i) == "slide_" \o ZFill(Str(i + 1), ZFillWidth) \o ".jpg"

(***************************************************************************)
(* JSON values of the request body.  A key may be absent, null, a number   *)
(* or a string.                                                            *)
(***************************************************************************)
JAbsent == [t |-> "absent", v |-> ""]
JNull == [t |-> "null", v |-> ""]
JNum == [t |-> "num", v |-> "5"]
JStr(s) == [t |-> "str", v |-> s]

\* data.get(key, default)
Get(j, default) == IF j.t = "absent" THEN JStr(default) ELSE j

\* str.lower() on the format strings of the model
Lower(s) ==
  CASE s = "PDF" -> "pdf"
    [] s = "Zip" -> "zip"
    [] OTHER -> s

FormatValues ==
  {JAbsent, JNull, JNum, JStr("pdf"), JStr("ppt"), JStr("zip"), JStr("PDF"), JStr("docx")}

TitleValues == {JAbsent, JStr("deck")}

RECURSIVE SeqsUpTo(_, _)
SeqsUpTo(S, n) ==
  IF n = 0 THEN {<<>>}
  ELSE LET shorter == SeqsUpTo(S, n - 1)
       IN shorter \cup {Append(s, x) : s \in {t \in shorter : Len(t) = n - 1}, x \in S}

ImageLists == SeqsUpTo(Urls, MaxImages)

\* Every request body of the model; a missing 'images' key reads as [].
Requests ==
  {[hasImages |-> TRUE, images |-> im, title |-> ti, format |-> f] :
     im \in ImageLists, ti \in TitleValues, f \in FormatValues}
  \cup {[hasImages |-> FALSE, images |-> <<>>, title |-> ti, format |-> f] :
     ti \in TitleValues, f \in FormatValues}

\* The requests of the concurrent specification: short lists, pdf and zip.
LedgerRequests ==
  {[hasImages |-> TRUE, images |-> im, title |-> JAbsent, format |-> JStr(f)] :
     im \in {<<"a.jpg">>, <<"x.404">>}, f \in {"pdf", "zip"}}

VARIABLES
  now,            \* time.time(), in seconds
  cleanup_queue,  \* the ledger: a list of [type, res, created]
  cleanup_lock,   \* Free, or the thread holding the lock
  disk,           \* the temp files that exist on disk
  closed,         \* the output buffers that have been closed
  sweeper,        \* the cleanup thread
  req,            \* per worker thread: the request it handles
  regLog,         \* history: every entry schedule_cleanup has appended
  failed,         \* history: the resources whose release raised in a sweep
  swept,          \* history: the entries the sweeps have removed from the ledger
  releases,       \* history: a bag, how often each entry's resource was released
  pptxBuild       \* what slide_layouts._sldLayouts.clear() does in this build

vars == <<now, cleanup_queue, cleanup_lock, disk, closed, sweeper, req, regLog, failed,
         swept, releases, pptxBuild>>

PptxBuilds == {"raises", "cleared", "noeffect"}

NoRes == <<"none", 0>>

NoData == [hasImages |-> FALSE, images |-> <<>>, title |-> JAbsent, format |-> JAbsent]

IdleReq ==
  [pc |-> "idle", data |-> NoData, images |-> <<>>, title |-> "", format_type |-> "", i |-> 0,
   pagesize |-> <<0, 0>>, cur |-> <<>>, out |-> <<>>, ops |-> <<>>,
   status |-> 0, body |-> "none", mimetype |-> "", filename |-> "",
   fetches |-> <<>>, probe |-> FALSE, fetched |-> {}, renderer |-> "none",
   pendType |-> "", pendRes |-> NoRes, ret |-> ""]

Init ==
  /\ now = 0
  /\ cleanup_queue = <<>>
  /\ cleanup_lock = Free
  /\ disk = {}
  /\ closed = {}
  /\ sweeper = [pc |-> "ready", current_time |-> 0, items_to_remove |-> <<>>,
                k |-> 1, wake |-> 0]
  /\ req = [w \in Workers |-> IdleReq]
  /\ regLog = {}
  /\ failed = {}
  /\ swept = {}
  /\ releases = EmptyBag
  /\ pptxBuild = "unknown"

TempPath(w, i) == <<w, i + 1>>
BufferOf(w) == <<w, 0>>

(***************************************************************************)
(* convert(), lines 242-257 and the except of 301-303.                     *)
(***************************************************************************)
ErrorResponse(r, code) ==
  [r EXCEPT !.pc = "done", !.status = code, !.body = "error"]

\* format_type = data.get('format', 'pdf').lower(): None and numbers have no lower()
FormatRaises(data) == Get(data.format, "pdf").t # "str"

FormatType(data) == Lower(Get(data.format, "pdf").v)

TitleOf(data) == Get(data.title, "Presentation").v

DataEmpty(data) ==
  ~data.hasImages /\ data.title.t = "absent" /\ data.format.t = "absent"

ValidFormats == {"pdf", "ppt", "zip"}

FirstPc(fmt) ==
  CASE fmt = "pdf" -> "pdf_first"
    [] fmt = "ppt" -> "ppt_init"
    [] OTHER -> "zip_loop"

Validate(r, data) ==
  IF DataEmpty(data) THEN ErrorResponse(r, 400)
  ELSE IF FormatRaises(data) THEN ErrorResponse(r, 500)
  ELSE IF data.images = <<>> THEN ErrorResponse(r, 400)
  ELSE IF FormatType(data) \notin ValidFormats THEN ErrorResponse(r, 400)
  ELSE [r EXCEPT !.pc = FirstPc(FormatType(data)),
                 !.images = data.images,
                 !.title = TitleOf(data),
                 !.format_type = FormatType(data),
                 !.renderer = FormatType(data)]

Convert(w, data) ==
  /\ req[w].pc = "idle"
  /\ req' = [req EXCEPT ![w] = Validate([req[w] EXCEPT !.data = data], data)]
  /\ UNCHANGED <<now, cleanup_queue, cleanup_lock, disk, closed, sweeper, regLog, failed, swept, releases, pptxBuild>>

(***************************************************************************)
(* schedule_cleanup, lines 71-79.                                          *)
(***************************************************************************)
CallSchedule(r, type, res, ret) ==
  [r EXCEPT !.pc = "sched_wait", !.pendType = type, !.pendRes = res, !.ret = ret]

NewEntry(type, res, t) == [type |-> type, res |-> res, created |-> t]

SchedAcquire(w) ==
  /\ req[w].pc = "sched_wait"
  /\ cleanup_lock = Free
  /\ cleanup_lock' = w
  /\ req' = [req EXCEPT ![w].pc = "sched_hold"]
  /\ UNCHANGED <<now, cleanup_queue, disk, closed, sweeper, regLog, failed, swept, releases, pptxBuild>>

SchedAppend(w) ==
  /\ req[w].pc = "sched_hold"
  /\ cleanup_lock = w
  /\ LET e == NewEntry(req[w].pendType, req[w].pendRes, now)
     IN /\ cleanup_queue' = Append(cleanup_queue, e)
        /\ regLog' = regLog \cup {e}
  /\ cleanup_lock' = Free
  /\ req' = [req EXCEPT ![w].pc = req[w].ret, ![w].pendType = "",
                        ![w].pendRes = NoRes, ![w].ret = ""]
  /\ UNCHANGED <<now, disk, closed, sweeper, failed, swept, releases, pptxBuild>>

(***************************************************************************)
(* create_pdf_from_images, lines 97-139.                                   *)
(***************************************************************************)
\* Letter, the page size reportlab falls back to (line 13 imports it)
PdfProbeFallback(f, u, ok) ==
  IF ok
  THEN [f EXCEPT !.pc = "pdf_loop", !.i = 0, !.probe = TRUE, !.pagesize = ImageSize(u)]
  ELSE [f EXCEPT !.pc = "pdf_loop", !.i = 0, !.pagesize = <<612, 792>>]

\* lines 103-107, and 137-139 with 301-303 when the download raises
PdfProbe(f, u, ok) ==
  IF ok
  THEN [f EXCEPT !.pc = "pdf_loop", !.i = 0, !.probe = TRUE, !.pagesize = ImageSize(u)]
  ELSE ErrorResponse(f, 500)

PdfSkipAbort(f) == ErrorResponse(f, 500)

\* lines 129-131: log and continue with the next image
PdfSkip(f) == [f EXCEPT !.i = f.i + 1]

PdfFirst(w) ==
  /\ req[w].pc = "pdf_first"
  /\ LET r == req[w]
         u == r.images[1]
         f == [r EXCEPT !.fetches = Append(r.fetches, 1)]
     IN \E ok \in FetchOutcomes(u) : req' = [req EXCEPT ![w] = PdfProbe(f, u, ok)]
  /\ UNCHANGED <<now, cleanup_queue, cleanup_lock, disk, closed, sweeper, regLog, failed, swept, releases, pptxBuild>>

PdfIter(w) ==
  /\ req[w].pc = "pdf_loop"
  /\ req[w].i < Len(req[w].images)
  /\ LET r == req[w]
         u == r.images[r.i + 1]
         f == [r EXCEPT !.fetches = Append(r.fetches, r.i + 1)]
         g == [f EXCEPT !.fetched = r.fetched \cup {r.i + 1}]
     IN \E ok \in FetchOutcomes(u) :
        IF ~ok
        THEN /\ req' = [req EXCEPT ![w] = PdfSkip(f)]
             /\ disk' = disk
        ELSE /\ disk' = disk \cup {TempPath(w, r.i)}
             /\ req' = [req EXCEPT ![w] =
                  IF ~JpegWritable(ImageMode(u))
                  THEN PdfSkip(g)
                  ELSE CallSchedule([g EXCEPT !.cur = Append(r.cur, r.i + 1),
                                              !.ops = Append(r.ops, "draw")],
                                    "file", TempPath(w, r.i), "pdf_page")]
  /\ UNCHANGED <<now, cleanup_queue, cleanup_lock, closed, sweeper, regLog, failed, swept, releases, pptxBuild>>

\* line 126: if i < len(images) - 1: c.showPage()
BreakAfter(i, n) == i < n - 1

ShowPageFront(r) ==
  [r EXCEPT !.out = <<r.cur>> \o r.out, !.cur = <<>>, !.ops = Append(r.ops, "showPage")]

\* c.showPage(): the current page is closed and appended to the document
ShowPage(r) ==
  [r EXCEPT !.out = Append(r.out, r.cur), !.cur = <<>>, !.ops = Append(r.ops, "showPage")]

PdfPage(w) ==
  /\ req[w].pc = "pdf_page"
  /\ LET r == req[w]
         p == IF BreakAfter(r.i, Len(r.images)) THEN ShowPage(r) ELSE r
     IN req' = [req EXCEPT ![w] = [p EXCEPT !.pc = "pdf_loop", !.i = r.i + 1]]
  /\ UNCHANGED <<now, cleanup_queue, cleanup_lock, disk, closed, sweeper, regLog, failed, swept, releases, pptxBuild>>

\* c.save(): a page is closed only if something was painted on it
CanvasSave(r) == IF r.cur # <<>> THEN [r EXCEPT !.out = Append(r.out, r.cur), !.cur = <<>>] ELSE r

ReturnedUnregistered(r, w, mimetype, ext) ==
  [r EXCEPT !.pc = "send", !.mimetype = mimetype, !.filename = r.title \o ext]

\* convert(), lines 262-280: mimetype and filename are set and the buffer
\* the renderer returned is registered before send_file gets it
Returned(r, w, mimetype, ext) ==
  CallSchedule([r EXCEPT !.mimetype = mimetype, !.filename = r.title \o ext],
               "buffer", BufferOf(w), "send")

PdfSave(w) ==
  /\ req[w].pc = "pdf_loop"
  /\ req[w].i = Len(req[w].images)
  /\ req' = [req EXCEPT ![w] = Returned(CanvasSave(req[w]), w, "application/pdf", ".pdf")]
  /\ UNCHANGED <<now, cleanup_queue, cleanup_lock, disk, closed, sweeper, regLog, failed, swept, releases, pptxBuild>>

(***************************************************************************)
(* convert(), lines 278-299: the buffer is registered (through             *)
(* schedule_cleanup) and handed to send_file; the response then streams    *)
(* it until the client has read it.                                        *)
(***************************************************************************)
Send(w) ==
  /\ req[w].pc = "send"
  /\ req' = [req EXCEPT ![w].pc = "sending", ![w].status = 200, ![w].body = "file"]
  /\ UNCHANGED <<now, cleanup_queue, cleanup_lock, disk, closed, sweeper, regLog, failed, swept, releases, pptxBuild>>

ResponseDone(w) ==
  /\ req[w].pc = "sending"
  /\ req' = [req EXCEPT ![w].pc = "done"]
  /\ UNCHANGED <<now, cleanup_queue, cleanup_lock, disk, closed, sweeper, regLog, failed, swept, releases, pptxBuild>>

(***************************************************************************)
(* create_ppt_from_images, lines 141-198.                                  *)
(***************************************************************************)
PptInit(w) ==
  /\ req[w].pc = "ppt_init"
  /\ \E b \in (IF pptxBuild = "unknown" THEN PptxBuilds ELSE {pptxBuild}) :
       /\ pptxBuild' = b
       /\ req' = [req EXCEPT ![w] =
             IF b = "raises"
             THEN ErrorResponse(req[w], 500)
             ELSE [req[w] EXCEPT !.pc = "ppt_loop", !.i = 0]]
  /\ UNCHANGED <<now, cleanup_queue, cleanup_lock, disk, closed, sweeper, regLog, failed, swept, releases>>

\* lines 157-162: with the layouts cleared, slide_layouts is empty and
\* slide_layouts[6] raises; otherwise slide_layouts[0] is used.
AddSlideRaises(build) == build = "cleared"

PptIter(w) ==
  /\ req[w].pc = "ppt_loop"
  /\ req[w].i < Len(req[w].images)
  /\ LET r == req[w]
         u == r.images[r.i + 1]
         f == [r EXCEPT !.fetches = Append(r.fetches, r.i + 1), !.i = r.i + 1]
         g == [f EXCEPT !.fetched = r.fetched \cup {r.i + 1}]
         blank == [pos |-> r.i + 1, pic |-> FALSE]
         full == [pos |-> r.i + 1, pic |-> TRUE]
     IN \E ok \in FetchOutcomes(u) :
        IF ~ok
        THEN /\ req' = [req EXCEPT ![w] = f]
             /\ disk' = disk
        ELSE IF AddSlideRaises(pptxBuild)
        THEN /\ req' = [req EXCEPT ![w] = g]
             /\ disk' = disk
        ELSE /\ disk' = disk \cup {TempPath(w, r.i)}
             /\ req' = [req EXCEPT ![w] =
                  IF ~JpegWritable(ImageMode(u))
                  THEN [g EXCEPT !.out = Append(r.out, blank)]
                  ELSE CallSchedule([g EXCEPT !.out = Append(r.out, full)],
                                    "file", TempPath(w, r.i), "ppt_loop")]
  /\ UNCHANGED <<now, cleanup_queue, cleanup_lock, closed, sweeper, regLog, failed, swept, releases, pptxBuild>>

PptSave(w) ==
  /\ req[w].pc = "ppt_loop"
  /\ req[w].i = Len(req[w].images)
  /\ req' = [req EXCEPT ![w] =
       Returned(req[w], w,
                "application/vnd.openxmlformats-officedocument.presentationml.presentation",
                ".pptx")]
  /\ UNCHANGED <<now, cleanup_queue, cleanup_lock, disk, closed, sweeper, regLog, failed, swept, releases, pptxBuild>>

(***************************************************************************)
(* create_zip_from_images, lines 200-239.                                  *)
(***************************************************************************)
ZipEntry(i) == [name |-> EntryName(i), pos |-> i + 1]

ZipWriteStaged(g, i) ==
  CallSchedule([g EXCEPT !.out = Append(g.out, ZipEntry(i))], "file", <<"w1", i + 1>>, "zip_loop")

\* lines 222-228: the image is saved into an in-memory buffer and written
\* into the archive; no temp file, no schedule_cleanup
ZipWrite(g, i) == [g EXCEPT !.out = Append(g.out, ZipEntry(i))]

ZipIter(w) ==
  /\ req[w].pc = "zip_loop"
  /\ req[w].i < Len(req[w].images)
  /\ LET r == req[w]
         u == r.images[r.i + 1]
         f == [r EXCEPT !.fetches = Append(r.fetches, r.i + 1), !.i = r.i + 1]
         g == [f EXCEPT !.fetched = r.fetched \cup {r.i + 1}]
     IN \E ok \in FetchOutcomes(u) :
        req' = [req EXCEPT ![w] =
          IF ~ok THEN f
          ELSE IF JpegWritable(ZipNormalize(ImageMode(u)))
          THEN ZipWrite(g, r.i)
          ELSE g]
  /\ UNCHANGED <<now, cleanup_queue, cleanup_lock, disk, closed, sweeper, regLog, failed, swept, releases, pptxBuild>>

ZipClose(w) ==
  /\ req[w].pc = "zip_loop"
  /\ req[w].i = Len(req[w].images)
  /\ req' = [req EXCEPT ![w] = Returned(req[w], w, "application/zip", ".zip")]
  /\ UNCHANGED <<now, cleanup_queue, cleanup_lock, disk, closed, sweeper, regLog, failed, swept, releases, pptxBuild>>

(***************************************************************************)
(* cleanup_resources, lines 29-65.  The lock is taken at line 33 and held  *)
(* over the scan (37-51) and the removal (54-55); then the thread sleeps.  *)
(***************************************************************************)
StaleLate(item, current_time) == current_time - item.created > StaleAfter + SweepSleep

StaleAtThreshold(item, current_time) == current_time - item.created >= StaleAfter

\* line 39
Stale(item, current_time) == current_time - item.created > StaleAfter

SweepBegin ==
  /\ sweeper.pc = "ready"
  /\ cleanup_lock = Free
  /\ cleanup_lock' = Sweeper
  /\ sweeper' = [sweeper EXCEPT !.pc = "scan", !.current_time = now,
                                !.items_to_remove = <<>>, !.k = 1]
  /\ UNCHANGED <<now, cleanup_queue, disk, closed, req, regLog, failed, swept, releases, pptxBuild>>

\* lines 41-42: os.unlink is called only for a path that exists, and may
\* then raise (lines 48-49) and leave the file where it is.
UnlinkRaises(path, files) == IF path \in files THEN {FALSE, TRUE} ELSE {FALSE}

\* lines 50-51: the finally clause queues the item for removal whether or
\* not its release raised, and the loop goes on with the next item
ScannedUnlessRaised(sw, item, raised) ==
  IF raised THEN [sw EXCEPT !.k = sw.k + 1]
  ELSE [sw EXCEPT !.k = sw.k + 1, !.items_to_remove = Append(sw.items_to_remove, item)]

Scanned(sw, item, raised) ==
  [sw EXCEPT !.k = sw.k + 1, !.items_to_remove = Append(sw.items_to_remove, item)]

\* lines 39-51 for one item
SweepItem ==
  /\ sweeper.pc = "scan"
  /\ sweeper.k <= Len(cleanup_queue)
  /\ LET item == cleanup_queue[sweeper.k]
     IN IF Stale(item, sweeper.current_time)
        THEN IF item.type = "file"
             THEN /\ \E raised \in UnlinkRaises(item.res, disk) :
                       /\ disk' = IF raised THEN disk ELSE disk \ {item.res}
                       /\ failed' = IF raised THEN failed \cup {item.res} ELSE failed
                       /\ sweeper' = Scanned(sweeper, item, raised)
                  /\ releases' = IF item.res \in disk
                                 THEN releases (+) SetToBag({item}) ELSE releases
                  /\ closed' = closed
             ELSE /\ closed' = closed \cup {item.res}
                  /\ releases' = releases (+) SetToBag({item})
                  /\ sweeper' = Scanned(sweeper, item, FALSE)
                  /\ UNCHANGED <<disk, failed>>
        ELSE /\ sweeper' = [sweeper EXCEPT !.k = sweeper.k + 1]
             /\ UNCHANGED <<disk, closed, failed, releases>>
  /\ UNCHANGED <<now, cleanup_queue, cleanup_lock, req, regLog, swept, pptxBuild>>

\* list.remove(x): the first element equal to x is removed
RECURSIVE RemoveFirst(_, _)
RemoveFirst(q, x) ==
  IF q = <<>> THEN <<>>
  ELSE IF Head(q) = x THEN Tail(q)
  ELSE <<Head(q)>> \o RemoveFirst(Tail(q), x)

RemoveHeadOnly(q, items) ==
  IF items = <<>> THEN q ELSE RemoveFirst(q, Head(items))

\* lines 54-55: every item queued for removal is removed
RECURSIVE RemoveAll(_, _)
RemoveAll(q, items) ==
  IF items = <<>> THEN q ELSE RemoveAll(RemoveFirst(q, Head(items)), Tail(items))

SweepRemove ==
  /\ sweeper.pc = "scan"
  /\ sweeper.k > Len(cleanup_queue)
  /\ cleanup_queue' = RemoveAll(cleanup_queue, sweeper.items_to_remove)
  /\ swept' = swept \cup ({cleanup_queue[k] : k \in DOMAIN cleanup_queue}
                          \ {cleanup_queue'[k] : k \in DOMAIN cleanup_queue'})
  /\ cleanup_lock' = Free
  /\ sweeper' = [sweeper EXCEPT !.pc = "sleep", !.wake = now + SweepSleep]
  /\ UNCHANGED <<now, disk, closed, req, regLog, failed, releases, pptxBuild>>

SweepWake ==
  /\ sweeper.pc = "sleep"
  /\ now >= sweeper.wake
  /\ sweeper' = [sweeper EXCEPT !.pc = "ready"]
  /\ UNCHANGED <<now, cleanup_queue, cleanup_lock, disk, closed, req, regLog, failed, swept, releases, pptxBuild>>

(***************************************************************************)
(* Time.  Tick lets the clock advance freely; TimelyTick lets it advance   *)
(* only while the cleanup thread is asleep and not yet due, which is the   *)
(* behaviour of a fairly scheduled thread whose sweep takes no time.       *)
(***************************************************************************)
Tick ==
  /\ now < MaxTime
  /\ now' = now + TickLen
  /\ UNCHANGED <<cleanup_queue, cleanup_lock, disk, closed, sweeper, req, regLog, failed, swept, releases, pptxBuild>>

TimelyTick ==
  /\ sweeper.pc = "sleep"
  /\ now < sweeper.wake
  /\ Tick

(***************************************************************************)
(* Specifications.                                                         *)
(***************************************************************************)
RenderPdf(w) == PdfFirst(w) \/ PdfIter(w) \/ PdfPage(w) \/ PdfSave(w)

RenderPpt(w) == PptInit(w) \/ PptIter(w) \/ PptSave(w)

RenderZip(w) == ZipIter(w) \/ ZipClose(w)

Respond(w) == SchedAcquire(w) \/ SchedAppend(w) \/ Send(w) \/ ResponseDone(w)

Sweep == SweepBegin \/ SweepItem \/ SweepRemove \/ SweepWake

ConvertAny ==
  /\ req["w1"].pc = "idle"
  /\ \E data \in Requests : Convert("w1", data)

ConvertLedger ==
  \E w \in Workers :
    /\ req[w].pc = "idle"
    /\ \E data \in LedgerRequests : Convert(w, data)

\* One request at a time, any request body, no cleanup thread.
NextConvert ==
  \/ ConvertAny
  \/ \E w \in Workers : RenderPdf(w) \/ RenderPpt(w) \/ RenderZip(w) \/ Respond(w)

ConvertSpec == Init /\ [][NextConvert]_vars

\* Concurrent pdf and zip requests, the cleanup thread and the clock; the
\* cleanup thread wakes when its sleep is over.
Next ==
  \/ ConvertLedger
  \/ \E w \in Workers : RenderPdf(w) \/ RenderZip(w) \/ Respond(w)
  \/ Sweep
  \/ TimelyTick

Spec == Init /\ [][Next]_vars

(***************************************************************************)
(* Properties.                                                             *)
(***************************************************************************)
InQueue(e) == \E k \in 1..Len(cleanup_queue) : cleanup_queue[k] = e

Released(e) == IF e.type = "file" THEN e.res \notin disk ELSE e.res \in closed

Overdue(e) == now - e.created > StaleAfter + SweepSleep

Finished(r) == r.pc \in {"sending", "done"}

RECURSIVE Flatten(_)
Flatten(pages) == IF pages = <<>> THEN <<>> ELSE Head(pages) \o Flatten(Tail(pages))

\* The input positions of the items of the output, in output order.
OutPositions(r) ==
  IF r.renderer = "pdf" THEN Flatten(r.out) \o r.cur
  ELSE [k \in 1..Len(r.out) |-> r.out[k].pos]

Increasing(s) == \A j, k \in 1..Len(s) : j < k => s[j] < s[k]

NonDecreasing(s) == \A j, k \in 1..Len(s) : j < k => s[j] <= s[k]

\* C1, as stated: every resource registered through schedule_cleanup at
\* time T is, once T + 300 s + 60 s has passed, out of cleanup_queue and its
\* file is deleted or its buffer closed (cleanup thread scheduled on time).
C1_Reclaimed == \A e \in regLog : Overdue(e) => ~InQueue(e) /\ Released(e)

\* C1, amended: every resource registered at time T is out of cleanup_queue
\* once T + 300 s + 60 s has passed, and its file is deleted or its buffer
\* closed unless the release attempt of the sweep raised.
C1_ReclaimedUnlessRaised ==
  \A e \in regLog : Overdue(e) => ~InQueue(e) /\ (Released(e) \/ e.res \in failed)

C1_Witness ==
  \E e \in regLog, b \in regLog :
    /\ e.type = "file" /\ Overdue(e) /\ ~InQueue(e) /\ e.res \notin disk
    /\ b.type = "buffer" /\ Overdue(b) /\ ~InQueue(b) /\ b.res \in closed

\* C2: the cleanup thread never closes an output buffer while the response
\* of the conversion that registered it is still in flight.
C2_NoReleaseInFlight ==
  \A w \in Workers : req[w].pc = "sending" => BufferOf(w) \notin closed

\* C3: a pdf request that returns an artifact returns one page per input
\* image that was successfully fetched.
C3_PagesEqualFetched ==
  \A w \in Workers :
    req[w].renderer = "pdf" /\ req[w].status = 200
      => Len(req[w].out) = Cardinality(req[w].fetched)

\* C4: a pdf request whose first image cannot be fetched ends with HTTP 500
\* and an error payload, with no page produced and no later image processed,
\* whatever the later images are.
C4_FirstFetchFatal ==
  \A w \in Workers :
    LET r == req[w]
    IN r.renderer = "pdf" /\ r.fetches # <<>> /\ ~r.probe
         => /\ r.pc = "done" /\ r.status = 500 /\ r.body = "error"
            /\ r.out = <<>> /\ r.cur = <<>> /\ r.fetches = <<1>>
            /\ \A e \in regLog : e.res # BufferOf(w)

C4_Witness ==
  \E w \in Workers :
    LET r == req[w]
    IN /\ r.renderer = "pdf" /\ r.fetches # <<>> /\ ~r.probe /\ r.status = 500
       /\ Len(r.images) >= 2 /\ TRUE \in FetchOutcomes(r.images[2])

\* C5: a request with an empty or missing images list gets HTTP 400 with an
\* error payload, fetches nothing, invokes no renderer and adds nothing to
\* the ledger, for every format and title.
C5_EmptyImagesRejected ==
  \A w \in Workers :
    LET r == req[w]
    IN r.pc # "idle" /\ r.data.images = <<>>
         => /\ r.pc = "done" /\ r.status = 400 /\ r.body = "error"
            /\ r.fetches = <<>> /\ r.renderer = "none" /\ regLog = {}

Unrecognised(data) ==
  \/ data.format.t \in {"num", "null"}
  \/ data.format.t = "str" /\ Lower(data.format.v) \notin ValidFormats

\* C6: a request with images whose format is no recognised kind (another
\* string, a number, null) gets HTTP 400 and no renderer is invoked.
C6_UnrecognisedFormatRejected ==
  \A w \in Workers :
    LET r == req[w]
    IN r.pc # "idle" /\ r.data.images # <<>> /\ Unrecognised(r.data)
         => r.pc = "done" /\ r.status = 400 /\ r.body = "error" /\ r.renderer = "none"

\* C7: a ppt request never fails, and its deck has exactly one slide per
\* successfully fetched image (none when every fetch fails).
C7_DeckPerFetchedImage ==
  \A w \in Workers :
    LET r == req[w]
    IN r.renderer = "ppt"
         => /\ r.status # 500
            /\ Finished(r) => r.status = 200 /\ Len(r.out) = Cardinality(r.fetched)

\* slide_ followed by k zero-padded to three digits
PaddedName(k) ==
  IF k < 10 THEN "slide_00" \o Digits[k + 1] \o ".jpg"
  ELSE IF k < 100 THEN "slide_0" \o Str(k) \o ".jpg"
  ELSE "slide_" \o Str(k) \o ".jpg"

\* C8: in a zip archive the entry of input position k is named slide_ and k
\* padded to three digits, the names are pairwise distinct, and when all n
\* images resolve the archive has exactly the entries slide_001 .. slide_n.
C8_ArchiveNames ==
  \A w \in Workers :
    LET r == req[w]
        n == Len(r.images)
    IN r.renderer = "zip"
         => /\ \A k \in 1..Len(r.out) : r.out[k].name = PaddedName(r.out[k].pos)
            /\ \A j, k \in 1..Len(r.out) : j # k => r.out[j].name # r.out[k].name
            /\ Finished(r) /\ r.fetched = 1..n
                 => r.out = [k \in 1..n |-> [name |-> PaddedName(k), pos |-> k]]

\* C9: in a pdf request whose first image is reachable, a later fetch
\* failure is never fatal: no page is made for the failed image, every
\* image is still processed, and the request ends with HTTP 200 and a
\* document whose page size is that of the first image.
C9_LaterFailureNotFatal ==
  \A w \in Workers :
    LET r == req[w]
        n == Len(r.images)
    IN r.renderer = "pdf" /\ r.probe
         => /\ r.status # 500
            /\ r.pagesize = ImageSize(r.images[1])
            /\ \A k \in 1..Len(OutPositions(r)) : OutPositions(r)[k] \in r.fetched
            /\ Finished(r)
                 => /\ r.status = 200 /\ r.body = "file"
                    /\ {r.fetches[k] : k \in 1..Len(r.fetches)} = 1..n

C9_Witness ==
  \E w \in Workers :
    LET r == req[w]
        n == Len(r.images)
    IN /\ r.renderer = "pdf" /\ r.probe /\ r.status = 200
       /\ \E k \in 2..n : \E j \in (k + 1)..n :
            /\ k \notin r.fetched
            /\ \E p \in 1..Len(r.out) : r.out[p] = <<j>>

\* C10: within one conversion the images are fetched in input order and
\* the pages, slides or entries of the output are in input order too.
C10_InputOrder ==
  \A w \in Workers :
    NonDecreasing(req[w].fetches) /\ Increasing(OutPositions(req[w]))

C10_Witness ==
  \E w \in Workers :
    LET r == req[w]
    IN /\ r.renderer = "pdf" /\ r.status = 200
       /\ r.out = <<<<1>>, <<3>>>> /\ r.fetches = <<1, 1, 2, 3>>

\* C11: in a pdf conversion a page break (showPage) follows every painted
\* image except the last one painted, whichever fetches fail; when the image
\* at the last input position fails, no page break follows the last image
\* that was painted.
C11_BreakExceptAfterLastPainted ==
  \A w \in Workers :
    LET r == req[w]
        n == Len(r.ops)
    IN r.renderer = "pdf" /\ Finished(r)
         => \A k \in 1..n :
              r.ops[k] = "draw"
                => ((k < n /\ r.ops[k + 1] = "showPage")
                      <=> \E j \in (k + 1)..n : r.ops[j] = "draw")

\* C12: every temp file the pdf or ppt renderer has created is registered
\* in the ledger as a file resource once the renderer has returned, also
\* when saving the image to it or embedding it raised.
C12_TempFilesTracked ==
  \A w \in Workers :
    LET r == req[w]
    IN r.renderer \in {"pdf", "ppt"} /\ r.pc \in {"send", "sending", "done"}
         => \A k \in 1..Len(r.images) :
              TempPath(w, k - 1) \in disk
                => \E e \in regLog : e.type = "file" /\ e.res = TempPath(w, k - 1)

\* C13: cleanup_lock is never held across blocking I/O: no step deletes a
\* file or closes a buffer while the cleanup thread holds the lock, no
\* request fetches an image while it holds the lock, and the cleanup thread
\* does not sleep holding it.
C13_NoIOUnderLock ==
  [][/\ (\E p \in disk : p \notin disk') => cleanup_lock # Sweeper
     /\ closed' # closed => cleanup_lock # Sweeper
     /\ \A w \in Workers : req'[w].fetches # req[w].fetches => cleanup_lock # w
     /\ sweeper.pc = "sleep" => cleanup_lock # Sweeper]_vars

Count(q, e) == Cardinality({k \in 1..Len(q) : q[k] = e})

\* C14: however registrations of concurrent requests interleave with each
\* other and with a sweep, every completed registration is in cleanup_queue
\* exactly once until a sweep removes it as stale, none is lost, nothing
\* else is in the queue, and no entry's resource is released twice.
C14_LedgerIntact ==
  /\ \A e \in regLog :
       /\ Count(cleanup_queue, e) = (IF e \in swept THEN 0 ELSE 1)
       /\ e \in swept => now - e.created > StaleAfter
       /\ CopiesIn(e, releases) <= 1
  /\ \A k \in 1..Len(cleanup_queue) : cleanup_queue[k] \in regLog
  /\ \A w \in Workers : req[w].pc = "sched_hold" => cleanup_lock = w
  /\ sweeper.pc = "scan" => cleanup_lock = Sweeper

C14_Witness ==
  \E e \in regLog, f \in regLog :
    /\ e.res[1] = "w1" /\ e \in swept /\ CopiesIn(e, releases) = 1
    /\ f.res[1] = "w2" /\ InQueue(f)
    /\ sweeper.pc = "scan" /\ req["w2"].pc = "sched_wait"

\* C15: when the release of a stale entry raised during a sweep, that entry
\* is out of cleanup_queue when the sweep ends, and so is every other entry
\* that was stale in that sweep, its file deleted or its buffer closed.
C15_FailedReleaseStillRemoved ==
  sweeper.pc = "sleep"
    => \A f \in regLog :
         f.res \in failed
           => /\ ~InQueue(f)
              /\ \A e \in regLog :
                   sweeper.current_time - e.created > StaleAfter
                     => ~InQueue(e) /\ (Released(e) \/ e.res \in failed)

C15_Witness ==
  /\ sweeper.pc = "sleep"
  /\ \E j, k \in 1..Len(sweeper.items_to_remove) :
       LET f == sweeper.items_to_remove[j]
           e == sweeper.items_to_remove[k]
       IN /\ j < k
          /\ f.type = "file" /\ f.res \in failed /\ f.res \in disk /\ ~InQueue(f)
          /\ e.res \notin failed /\ Released(e) /\ ~InQueue(e)

\* C16: a sweep releases and removes exactly the entries whose age at the
\* time of the sweep exceeds 300 s: a step of the scan touches a file or a
\* buffer only if it belongs to the entry under scan and that entry is older
\* than 300 s, and the removal leaves exactly the entries of age at most
\* 300 s, in their order and unchanged, every removed one having been
\* released in the scan.
C16_SweepsExactlyStale ==
  [][sweeper.pc = "scan"
       => LET ct == sweeper.current_time
              Old(e) == ct - e.created > StaleAfter
              Kept(e) == ~Old(e)
          IN /\ disk \ disk' # {} \/ closed' # closed \/ releases' # releases
                  => /\ sweeper.k <= Len(cleanup_queue)
                     /\ Old(cleanup_queue[sweeper.k])
                     /\ disk \ disk' \subseteq {cleanup_queue[sweeper.k].res}
                     /\ closed' \ closed \subseteq {cleanup_queue[sweeper.k].res}
             /\ sweeper'.pc = "scan" /\ sweeper'.k > sweeper.k /\ Old(cleanup_queue[sweeper.k])
                  => CopiesIn(cleanup_queue[sweeper.k], releases') = 1
             /\ sweeper'.pc = "sleep"
                  => /\ cleanup_queue' = SelectSeq(cleanup_queue, Kept)
                     /\ \A k \in 1..Len(cleanup_queue) :
                          Old(cleanup_queue[k]) <=> CopiesIn(cleanup_queue[k], releases) = 1]_vars

C16_Witness ==
  /\ sweeper.pc = "sleep"
  /\ \E e \in swept, k \in 1..Len(cleanup_queue) :
       LET f == cleanup_queue[k]
       IN /\ CopiesIn(e, releases) = 1
          /\ sweeper.current_time - f.created = StaleAfter
          /\ f.type = "file" /\ f.res \in disk /\ CopiesIn(f, releases) = 0

\* The entries of cleanup_queue of the given type that worker w registered.
Registered(w, type) ==
  Cardinality({k \in 1..Len(cleanup_queue) :
                 cleanup_queue[k].type = type /\ cleanup_queue[k].res[1] = w})

\* C17: a conversion that returns an artifact has registered its output
\* buffer exactly once before the buffer is handed to send_file; a
\* conversion that ends in a validation error or a terminal failure has
\* registered no buffer.
C17_BufferRegisteredOnce ==
  \A w \in Workers :
    LET r == req[w]
    IN /\ Registered(w, "buffer") <= 1
       /\ r.pc \in {"send", "sending"} \/ r.status = 200
            => /\ Registered(w, "buffer") = 1
               /\ \E k \in 1..Len(cleanup_queue) :
                    cleanup_queue[k] = [type |-> "buffer", res |-> BufferOf(w), created |-> now]
       /\ r.pc = "done" /\ r.status \in {400, 500} => Registered(w, "buffer") = 0

C17_Witness ==
  \E w \in Workers :
    /\ req[w].pc = "send" /\ req[w].renderer = "ppt"
    /\ Registered(w, "buffer") = 1 /\ Registered(w, "file") = 2

\* C18: a zip conversion registers no file resource, whatever its image
\* list, and a zip conversion that returns an artifact has added exactly
\* one entry to cleanup_queue, its output buffer.
C18_ArchiveRegistersBufferOnly ==
  \A w \in Workers :
    LET r == req[w]
    IN r.renderer = "zip"
         => /\ Registered(w, "file") = 0
            /\ \A k \in 1..Len(r.images) : TempPath(w, k - 1) \notin disk
            /\ Finished(r)
                 => /\ Registered(w, "buffer") = 1
                    /\ Cardinality({k \in 1..Len(cleanup_queue) :
                                      cleanup_queue[k].res[1] = w}) = 1

C18_Witness ==
  \E w \in Workers :
    LET r == req[w]
    IN /\ r.renderer = "zip" /\ Finished(r) /\ Len(r.out) = 2 /\ Len(r.images) = 3
       /\ cleanup_queue = <<[type |-> "buffer", res |-> BufferOf(w), created |-> now]>>

\* C19: within one conversion no input position is fetched more than once,
\* for each renderer, so a conversion of n images issues at most n fetches.
C19_FetchedAtMostOnce ==
  \A w \in Workers :
    LET r == req[w]
    IN /\ \A j, k \in 1..Len(r.fetches) : j # k => r.fetches[j] # r.fetches[k]
       /\ Len(r.fetches) <= Len(r.images)

====
